---- MODULE Spec2Model ----
(***************************************************************************)
(* The tracker of P2PChat (src/server/tracker.py): the peer directory, the *)
(* user table and the channel store, each request handler as one action.   *)
(* A handler whose body runs inside `with self.lock` is one step, taken    *)
(* when the lock is free; add_message is also modelled statement by        *)
(* statement, with the lock taken and released, to check what the lock     *)
(* gives. The clock reads of a handler are separate reads: the second may  *)
(* tick between them. The sweeper (cleanup_inactive_peers) is one action   *)
(* per pass; between passes the clock may run the length of the timeout.   *)
(*                                                                         *)
(* Encoding of the JSON values a request carries:                          *)
(*   - a JSON object (a Python dict) is a record; a key the object lacks   *)
(*     is a field the record lacks (Get is dict.get);                      *)
(*   - a JSON value that is not an object is a record with the one field   *)
(*     py_type (IsDict tells the two apart);                               *)
(*   - a timestamp 'YYYY-MM-DD HH:MM:SS' is the number of its second: the  *)
(*     fixed-width format orders lexically as the seconds order.           *)
(***************************************************************************)
EXTENDS Integers, Sequences, FiniteSets, TLC

\* ------------------------------------------------------------ bounds
\* the clock runs from 0 to MaxTime seconds
MaxTime == 1
\* at most MaxPeers records in the peer directory
MaxPeers == 2
\* at most MaxLog messages in the channel store (all channels together)
MaxLog == 3
\* the clock of the sweeper's runs goes up to MaxUptime seconds
MaxUptime == 301
\* the clients of the sweeper's runs register at most MaxIssued peer ids
MaxIssued == 2
\* a client sends at most MaxSent requests on a connection
MaxSent == 2
\* the threads that contend for the lock fill the store up to MaxFairLog messages
MaxFairLog == 1

VARIABLES
    peers,      \* self.peers: peer_id -> PeerRecord
    users,      \* self.users: username -> [password, status]
    channels,   \* self.channels: channel_id -> [name, owner, messages, access_control]
    open,       \* the connections handle_client is serving
    now,        \* the clock, in seconds
    response,   \* the last response written to a socket
    issued,     \* history: every peer_id and session_id a response has returned
    visitors,   \* history: the clients that registered as visitors
    lastAdd,    \* history: channel_id -> the last message_id add_message returned
    lock,       \* self.lock: the connection whose handler holds it, 0 when free
    frames,     \* thread -> where its handler stands, and its locals
    lastSweep,  \* history: the last pass of cleanup_inactive_peers
    streams,    \* connection -> the bytes sent on it, the unread ones, the answers
    dataLock,   \* DataManager.lock: the caller that holds it, 0 when free
    peersFile,  \* the peer map peers.json holds
    calls       \* caller -> where its call of the DataManager stands, its locals

\* the state of the DataManager (src/server/data_manager.py)
manager == <<dataLock, peersFile, calls>>

vars == <<peers, users, channels, open, now, response, issued, visitors, lastAdd,
          lock, frames, lastSweep, streams, dataLock, peersFile, calls>>

\* ------------------------------------------------------------ values
\* the client hosts; connection c comes from address ConnIP(c)
Conns == {1, 2}

ConnIP(c) == "10.0.0." \o ToString(c)

\* the thread of cleanup_inactive_peers, next to one thread per connection
SweeperThread == 3

Threads == Conns \cup {SweeperThread}

ChannelIds == {"general", "random"}

\* dict.get(key, default)
Get(d, k, default) == IF k \in DOMAIN d THEN d[k] ELSE default

\* isinstance(v, dict): only a dict has .get
IsDict(v) == "py_type" \notin DOMAIN v

\* dict assignment d[k] = v
Put(d, k, v) == [x \in DOMAIN d \cup {k} |-> IF x = k THEN v ELSE d[x]]

\* a later read of the clock: the same second or the next one
ClockRead(t) == {t} \cup ({t + 1} \cap (0..MaxTime))

NoResponse == [status |-> "none"]

\* no pass of the sweeper yet
NoSweep == [at |-> -1, removed |-> {}, left |-> <<>>, again |-> FALSE]

\* a connection nothing was sent on
NoStream == [sent |-> <<>>, wire |-> <<>>, returned |-> <<>>, answers |-> <<>>]

\* the threads that call the DataManager
Callers == {1, 2}

\* a caller that has not called the DataManager
NoCall == [fn |-> "None", pc |-> "idle", peer_id |-> "None", peer_info |-> "None",
           peers |-> <<>>, result |-> "None"]

\* the request reaches its handler whole and the answer reaches the client:
\* the step reads and writes no byte stream, and the tracker calls no
\* DataManager
Direct == UNCHANGED <<streams, manager>>

\* a connection between two requests: handle_client waits in recv; the
\* sweeper between two passes: it sleeps
Idle == [pc |-> "recv"]

\* a handler that enters without taking the lock
LockIgnored == TRUE

\* `with self.lock` can enter: no handler holds the lock
LockFree == lock = 0

\* a handler that runs its body without the lock
ServesUnlocked(c) == c \in open /\ frames[c] = Idle

\* connection c is served, has a request to handle and gets the lock; an
\* action with this guard is a handler that runs from acquire to release
Serves(c) == c \in open /\ frames[c] = Idle /\ LockFree

\* ------------------------------------------------------------ Init
Init ==
    /\ peers = <<>>
    /\ users = [u \in {"admin", "user1", "user2"} |->
                  [password |-> IF u = "admin" THEN "admin123" ELSE "user123",
                   status |-> "offline"]]
    /\ channels = [ch \in ChannelIds |->
                  [name |-> IF ch = "general" THEN "General" ELSE "Random",
                   owner |-> "admin",
                   messages |-> <<>>,
                   access_control |-> [visitors_allowed |-> TRUE]]]
    /\ open = {}
    /\ now = 0
    /\ response = NoResponse
    /\ issued = {}
    /\ visitors = {}
    /\ lastAdd = [ch \in ChannelIds |-> 0]
    /\ lock = 0
    /\ frames = [t \in Threads |-> Idle]
    /\ lastSweep = NoSweep
    /\ dataLock = 0
    /\ peersFile = <<>>
    /\ calls = [t \in Callers |-> NoCall]
    /\ streams = [c \in Conns |-> NoStream]

\* ------------------------------------------------------------ environment
\* Tracker.start: accept a connection and serve it
Accept(c) ==
    /\ c \notin open
    /\ open' = open \cup {c}
    /\ UNCHANGED <<peers, users, channels, now, response, issued, visitors, lastAdd, lock, frames, lastSweep>>

\* the wall clock advances by a second
Tick ==
    /\ now < MaxTime
    /\ now' = now + 1
    /\ UNCHANGED <<peers, users, channels, open, response, issued, visitors, lastAdd, lock, frames, lastSweep>>

\* ------------------------------------------------------------ peer directory
\* f"{username}_{ip}_{port}_{int(time.time())}"
PeerId(username, ip, port, t) ==
    username \o "_" \o ip \o "_" \o ToString(port) \o "_" \o ToString(t)

\* the directory has room for the record (the model's bound on its size)
Room(peer_id) == peer_id \in DOMAIN peers \/ Cardinality(DOMAIN peers) < MaxPeers

SubmitInfoRequests ==
    LET base == [type |-> "submit_info", port |-> 5000]
    IN  {base,
         [type |-> "submit_info", port |-> 5000, username |-> "user1"],
         [type |-> "submit_info", port |-> 5000, username |-> "user1",
          session_id |-> "s1", status |-> "busy"]}

\* handle_submit_info
SubmitInfo(c, req) ==
    /\ Serves(c)
    /\ req.type = "submit_info"
    /\ \E t1 \in ClockRead(now) : \E t2 \in ClockRead(t1) :
         LET username == Get(req, "username", "anonymous")
             peer_id == PeerId(username, ConnIP(c), req.port, t1)
         IN  /\ Room(peer_id)
             /\ peers' = Put(peers, peer_id,
                             [ip |-> ConnIP(c),
                              port |-> req.port,
                              username |-> username,
                              session_id |-> Get(req, "session_id", ""),
                              status |-> Get(req, "status", "online"),
                              last_seen |-> t2])
             /\ response' = [status |-> "success",
                             peer_id |-> peer_id,
                             message |-> "Peer information submitted successfully"]
             /\ issued' = issued \cup {peer_id}
             /\ now' = t2
    /\ UNCHANGED <<users, channels, open, visitors, lastAdd, lock, frames, lastSweep>>

\* a visitor stored with the status of a user
VisitorStatusOnline == "online"

\* 'status': 'visitor'
VisitorStatus == "visitor"

RegisterVisitorRequests ==
    {[type |-> "register_visitor", port |-> 5000],
     [type |-> "register_visitor", port |-> 5000, visitor_name |-> "admin"]}

\* handle_register_visitor
RegisterVisitor(c, req) ==
    /\ Serves(c)
    /\ req.type = "register_visitor"
    /\ \E t1 \in ClockRead(now) : \E t2 \in ClockRead(t1) :
       \E t3 \in ClockRead(t2) : \E t4 \in ClockRead(t3) :
         LET visitor_name == Get(req, "visitor_name",
                                 "visitor_" \o ConnIP(c) \o "_" \o ToString(t1))
             peer_id == PeerId(visitor_name, ConnIP(c), req.port, t2)
         IN  /\ Room(peer_id)
             /\ peers' = Put(peers, peer_id,
                             [ip |-> ConnIP(c),
                              port |-> req.port,
                              username |-> visitor_name,
                              session_id |-> "visitor_" \o ToString(t3),
                              status |-> VisitorStatus,
                              last_seen |-> t4])
             /\ response' = [status |-> "success",
                             peer_id |-> peer_id,
                             visitor_name |-> visitor_name,
                             message |-> "Visitor registered successfully"]
             /\ issued' = issued \cup {peer_id}
             /\ now' = t4
    /\ visitors' = visitors \cup {c}
    /\ UNCHANGED <<users, channels, open, lastAdd, lock, frames, lastSweep>>

\* ------------------------------------------------------------ channel store
\* Python's None where a string is expected (a field the request lacks)
PyNone == "None"

\* an exception raised inside a handler: handle_client answers with str(e)
\* and its finally clause closes the connection
RaisedResponse(text) == [status |-> "error", message |-> text]

NoGetAttr == "object has no attribute 'get'"

NotIterable == "argument of type 'NoneType' is not iterable"

\* the messages of all channels together (the model bounds their number)
RECURSIVE TotalMessages(_, _)
TotalMessages(chs, ids) ==
    IF ids = {} THEN 0
    ELSE LET ch == CHOOSE x \in ids : TRUE
         IN  Len(chs[ch].messages) + TotalMessages(chs, ids \ {ch})

\* len(self.channels[channel_id]['messages']) + 1
NextMessageId(log) == Len(log) + 1

\* the flag read under a key no request carries
VisitorModeWrongKey(req) == Get(req, "is_visitor", FALSE)

\* if request.get('visitor_mode', False)
VisitorMode(req) == Get(req, "visitor_mode", FALSE)

\* channel_info['access_control'].get('visitors_allowed', False)
VisitorsAllowed(access_control) == Get(access_control, "visitors_allowed", FALSE)

\* handle_add_message
AddMessage(c, req) ==
    /\ Serves(c)
    /\ req.type = "add_message"
    /\ LET channel_id == Get(req, "channel_id", PyNone)
       IN  IF channel_id \in DOMAIN channels
           THEN IF VisitorMode(req)
                THEN /\ response' = [status |-> "error",
                                     message |-> "Visitors are not allowed to add messages"]
                     /\ UNCHANGED <<channels, lastAdd>>
                ELSE LET log == channels[channel_id].messages
                         message == [id |-> NextMessageId(log),
                                     username |-> Get(req, "username", PyNone),
                                     content |-> Get(req, "message", PyNone),
                                     timestamp |-> now]
                     IN  /\ TotalMessages(channels, DOMAIN channels) < MaxLog
                         /\ channels' = [channels EXCEPT
                                           ![channel_id].messages = Append(log, message)]
                         /\ response' = [status |-> "success",
                                         message_id |-> message.id,
                                         message |-> "Message added successfully"]
                         /\ lastAdd' = [lastAdd EXCEPT ![channel_id] = message.id]
           ELSE /\ response' = [status |-> "error", message |-> "Channel not found"]
                /\ UNCHANGED <<channels, lastAdd>>
    /\ UNCHANGED <<peers, users, open, now, issued, visitors, lock, frames, lastSweep>>

\* handle_add_message statement by statement. Lines 347-350: the handler
\* has read the request's fields and asks for the lock
AddMessageCall(c, req) ==
    /\ c \in open
    /\ frames[c] = Idle
    /\ req.type = "add_message"
    /\ frames' = [frames EXCEPT ![c] = [pc |-> "lock", req |-> req]]
    /\ UNCHANGED <<peers, users, channels, open, now, response, issued, visitors,
                   lastAdd, lock, lastSweep>>

\* line 352: with self.lock
AddMessageLock(c) ==
    /\ frames[c].pc = "lock"
    /\ LockFree
    /\ lock' = c
    /\ frames' = [frames EXCEPT ![c].pc = "build"]
    /\ UNCHANGED <<peers, users, channels, open, now, response, issued, visitors, lastAdd, lastSweep>>

\* lines 353-367: the two tests, then the message with id len + 1; a return
\* leaves the with block and releases the lock
AddMessageBuild(c) ==
    /\ frames[c].pc = "build"
    /\ LET req == frames[c].req
           channel_id == Get(req, "channel_id", PyNone)
       IN  IF channel_id \in DOMAIN channels /\ ~VisitorMode(req)
           THEN LET log == channels[channel_id].messages
                    message == [id |-> NextMessageId(log),
                                username |-> Get(req, "username", PyNone),
                                content |-> Get(req, "message", PyNone),
                                timestamp |-> now]
                IN  /\ TotalMessages(channels, DOMAIN channels) < MaxLog
                    /\ frames' = [frames EXCEPT
                                    ![c] = [pc |-> "append", req |-> req,
                                            message |-> message]]
                    /\ UNCHANGED <<response, lock>>
           ELSE /\ response' =
                     IF channel_id \in DOMAIN channels
                     THEN [status |-> "error",
                           message |-> "Visitors are not allowed to add messages"]
                     ELSE [status |-> "error", message |-> "Channel not found"]
                /\ lock' = 0
                /\ frames' = [frames EXCEPT ![c] = Idle]
    /\ UNCHANGED <<peers, users, channels, open, now, issued, visitors, lastAdd, lastSweep>>

\* lines 369-375: the append and the response; the return releases the lock
AddMessageAppend(c) ==
    /\ frames[c].pc = "append"
    /\ LET channel_id == frames[c].req.channel_id
           message == frames[c].message
       IN  /\ channels' = [channels EXCEPT
                             ![channel_id].messages = Append(@, message)]
           /\ response' = [status |-> "success",
                           message_id |-> message.id,
                           message |-> "Message added successfully"]
           /\ lastAdd' = [lastAdd EXCEPT ![channel_id] = message.id]
    /\ lock' = 0
    /\ frames' = [frames EXCEPT ![c] = Idle]
    /\ UNCHANGED <<peers, users, open, now, issued, visitors, lastSweep>>

\* every client message appended, without the test on message_ids
RECURSIVE AddClientMessagesNoDedup(_, _, _)
AddClientMessagesNoDedup(merged_messages, message_ids, client_messages) ==
    IF client_messages = <<>> THEN merged_messages
    ELSE AddClientMessagesNoDedup(Append(merged_messages, Head(client_messages)),
                                  message_ids, Tail(client_messages))

\* lines 416-419: the client messages whose id is not yet in message_ids
RECURSIVE AddClientMessages(_, _, _)
AddClientMessages(merged_messages, message_ids, client_messages) ==
    IF client_messages = <<>> THEN merged_messages
    ELSE LET msg == Head(client_messages)
         IN  IF msg.id \notin message_ids
             THEN AddClientMessages(Append(merged_messages, msg),
                                    message_ids \cup {msg.id}, Tail(client_messages))
             ELSE AddClientMessages(merged_messages, message_ids, Tail(client_messages))

\* a step that puts msg before the messages of its own timestamp
InsertBeforeEqual(sorted, msg) ==
    LET k == Cardinality({i \in 1..Len(sorted) : sorted[i].timestamp < msg.timestamp})
    IN  SubSeq(sorted, 1, k) \o <<msg>> \o SubSeq(sorted, k + 1, Len(sorted))

\* one step of a stable sort: msg goes after every message not later than it
InsertByTimestamp(sorted, msg) ==
    LET k == Cardinality({i \in 1..Len(sorted) : sorted[i].timestamp <= msg.timestamp})
    IN  SubSeq(sorted, 1, k) \o <<msg>> \o SubSeq(sorted, k + 1, Len(sorted))

\* merged_messages.sort(key=lambda x: x['timestamp']): list.sort is stable
RECURSIVE SortByTimestamp(_)
SortByTimestamp(msgs) ==
    IF msgs = <<>> THEN <<>>
    ELSE InsertByTimestamp(SortByTimestamp(SubSeq(msgs, 1, Len(msgs) - 1)),
                           msgs[Len(msgs)])

\* lines 403-422: server messages first, then the new client messages, sorted
MergeMessages(server_messages, client_messages) ==
    SortByTimestamp(
        AddClientMessages(server_messages,
                          {server_messages[i].id : i \in 1..Len(server_messages)},
                          client_messages))

\* the test without its owner half
MaySyncAnyUser(channel_id, username) == channel_id \in DOMAIN channels

\* channel_id in self.channels and self.channels[channel_id]['owner'] == username
MaySync(channel_id, username) ==
    /\ channel_id \in DOMAIN channels
    /\ channels[channel_id].owner = username

\* the sync that merges the messages and keeps the server's access control
SyncedChannelKeepsAccess(channel, channel_data) ==
    IF "messages" \in DOMAIN channel_data
    THEN [channel EXCEPT !.messages = MergeMessages(channel.messages, channel_data.messages)]
    ELSE channel

\* lines 401-429: the channel record after a successful sync
SyncedChannel(channel, channel_data) ==
    LET merged == IF "messages" \in DOMAIN channel_data
                  THEN [channel EXCEPT
                          !.messages = MergeMessages(channel.messages, channel_data.messages)]
                  ELSE channel
    IN  IF "access_control" \in DOMAIN channel_data
        THEN [merged EXCEPT !.access_control = channel_data.access_control]
        ELSE merged

\* lines 398-441: the body of handle_sync_channel inside `with self.lock`
SyncChannelLocked(c, req) ==
    /\ LET channel_id == Get(req, "channel_id", PyNone)
           username == Get(req, "username", PyNone)
       IN  IF MaySync(channel_id, username)
           THEN IF "channel_data" \notin DOMAIN req
                THEN \* 'messages' in None raises TypeError
                     /\ response' = RaisedResponse(NotIterable)
                     /\ open' = open \ {c}
                     /\ UNCHANGED channels
                ELSE LET synced == SyncedChannel(channels[channel_id], req.channel_data)
                     IN  /\ channels' = [channels EXCEPT ![channel_id] = synced]
                         /\ TotalMessages(channels', DOMAIN channels) <= MaxLog
                         /\ response' = [status |-> "success",
                                         channel_id |-> channel_id,
                                         channel_data |-> synced,
                                         message |-> "Channel synchronized successfully"]
                         /\ UNCHANGED open
           ELSE /\ response' = [status |-> "error",
                                message |-> "Channel not found or you are not the owner"]
                /\ UNCHANGED <<channels, open>>

\* handle_sync_channel
SyncChannel(c, req) ==
    /\ Serves(c)
    /\ req.type = "sync_channel"
    /\ SyncChannelLocked(c, req)
    /\ UNCHANGED <<peers, users, now, issued, visitors, lastAdd, lock, frames, lastSweep>>

\* the with block left with the lock still held
StillHeld(c) == c

\* the with block of line 397 is left, by return or by an exception: the
\* lock is released
Released(c) == 0

\* handle_sync_channel statement by statement. Lines 392-395: the handler
\* has read the request's fields and asks for the lock
SyncCall(c, req) ==
    /\ c \in open
    /\ frames[c] = Idle
    /\ req.type = "sync_channel"
    /\ frames' = [frames EXCEPT ![c] = [pc |-> "sync_lock", req |-> req]]
    /\ UNCHANGED <<peers, users, channels, open, now, response, issued, visitors,
                   lastAdd, lock, lastSweep>>

\* line 397: with self.lock
SyncLock(c) ==
    /\ frames[c].pc = "sync_lock"
    /\ LockFree
    /\ lock' = c
    /\ frames' = [frames EXCEPT ![c].pc = "sync_body"]
    /\ UNCHANGED <<peers, users, channels, open, now, response, issued, visitors,
                   lastAdd, lastSweep>>

\* lines 398-441: the body, which returns or raises
SyncBody(c) ==
    /\ frames[c].pc = "sync_body"
    /\ SyncChannelLocked(c, frames[c].req)
    /\ lock' = Released(c)
    /\ frames' = [frames EXCEPT ![c] = Idle]
    /\ UNCHANGED <<peers, users, now, issued, visitors, lastAdd, lastSweep>>

\* lines 275-280 / 290-294: the name and owner of each listed channel
ChannelList(ids) == [ch \in ids |-> [name |-> channels[ch].name, owner |-> channels[ch].owner]]

\* handle_get_channels
GetChannels(c, req) ==
    /\ Serves(c)
    /\ req.type = "get_channels"
    /\ IF VisitorMode(req)
       THEN IF \E ch \in DOMAIN channels : ~IsDict(channels[ch].access_control)
            THEN \* .get on a value that is no dict raises AttributeError
                 /\ response' = RaisedResponse(NoGetAttr)
                 /\ open' = open \ {c}
            ELSE /\ response' =
                       [status |-> "success",
                        channels |-> ChannelList({ch \in DOMAIN channels :
                                         VisitorsAllowed(channels[ch].access_control)}),
                        message |-> "Channel list retrieved successfully"]
                 /\ UNCHANGED open
       ELSE /\ response' = [status |-> "success",
                            channels |-> ChannelList(DOMAIN channels),
                            message |-> "Channel list retrieved successfully"]
            /\ UNCHANGED open
    /\ UNCHANGED <<peers, users, channels, now, issued, visitors, lastAdd, lock, frames, lastSweep>>

\* the test without its `not`
VisitorDeniedNoNot(req, access_control) == VisitorMode(req) /\ VisitorsAllowed(access_control)

\* line 317: request.get('visitor_mode', False) and not ...get('visitors_allowed', False)
VisitorDenied(req, access_control) == VisitorMode(req) /\ ~VisitorsAllowed(access_control)

\* handle_get_channel_messages
GetChannelMessages(c, req) ==
    /\ Serves(c)
    /\ req.type = "get_channel_messages"
    /\ LET channel_id == Get(req, "channel_id", PyNone)
       IN  IF channel_id \in DOMAIN channels
           THEN IF VisitorMode(req) /\ ~IsDict(channels[channel_id].access_control)
                THEN /\ response' = RaisedResponse(NoGetAttr)
                     /\ open' = open \ {c}
                ELSE IF VisitorDenied(req, channels[channel_id].access_control)
                THEN /\ response' = [status |-> "error",
                                     message |-> "Visitors are not allowed in this channel"]
                     /\ UNCHANGED open
                ELSE /\ response' = [status |-> "success",
                                     channel_id |-> channel_id,
                                     channel_name |-> channels[channel_id].name,
                                     messages |-> channels[channel_id].messages,
                                     message |-> "Channel messages retrieved successfully"]
                     /\ UNCHANGED open
           ELSE /\ response' = [status |-> "error", message |-> "Channel not found"]
                /\ UNCHANGED open
    /\ UNCHANGED <<peers, users, channels, now, issued, visitors, lastAdd, lock, frames, lastSweep>>

\* ------------------------------------------------------------ user table
\* the test that looks the username up and does not compare the password
KnownUser(username, password) == username \in DOMAIN users

\* username in self.users and self.users[username]['password'] == password
Authenticated(username, password) ==
    /\ username \in DOMAIN users
    /\ users[username].password = password

\* f"session_{username}_{int(time.time())}"
SessionId(username, t) == "session_" \o username \o "_" \o ToString(t)

\* handle_authenticate
Authenticate(c, req) ==
    /\ Serves(c)
    /\ req.type = "authenticate"
    /\ LET username == Get(req, "username", PyNone)
           password == Get(req, "password", PyNone)
       IN  IF Authenticated(username, password)
           THEN \E t \in ClockRead(now) :
                  /\ users' = [users EXCEPT ![username].status = "online"]
                  /\ response' = [status |-> "success",
                                  message |-> "Authentication successful",
                                  username |-> username,
                                  session_id |-> SessionId(username, t)]
                  /\ issued' = issued \cup {SessionId(username, t)}
                  /\ now' = t
           ELSE /\ response' = [status |-> "error",
                                message |-> "Invalid username or password"]
                /\ UNCHANGED <<users, issued, now>>
    /\ UNCHANGED <<peers, channels, open, visitors, lastAdd, lock, frames, lastSweep>>

\* the update that writes the peer's fields without looking the peer_id up
TouchedPeersCreates(peer_id, status, t) ==
    Put(peers, peer_id, [status |-> status, last_seen |-> t])

\* lines 464-466: status and last_seen of the peer, if the directory has it
TouchedPeers(peer_id, status, t) ==
    IF peer_id \in DOMAIN peers
    THEN [peers EXCEPT ![peer_id].status = status, ![peer_id].last_seen = t]
    ELSE peers

\* handle_update_status
UpdateStatus(c, req) ==
    /\ Serves(c)
    /\ req.type = "update_status"
    /\ LET username == Get(req, "username", PyNone)
           status == Get(req, "status", PyNone)
           peer_id == Get(req, "peer_id", PyNone)
       IN  \E t \in (IF peer_id \in DOMAIN peers THEN ClockRead(now) ELSE {now}) :
             /\ users' = IF username \in DOMAIN users
                         THEN [users EXCEPT ![username].status = status]
                         ELSE users
             /\ peers' = TouchedPeers(peer_id, status, t)
             /\ now' = t
    /\ response' = [status |-> "success", message |-> "Status updated successfully"]
    /\ UNCHANGED <<channels, open, issued, visitors, lastAdd, lock, frames, lastSweep>>

\* ------------------------------------------------------------ peer list
\* the truth value of request.get(key): None and the empty string are false
Truthy(v) == v # PyNone /\ v # ""

\* the filter that tests the username only
MatchesUsername(peer_info, req) ==
    LET filter_username == Get(req, "filter_username", PyNone)
    IN  ~(Truthy(filter_username) /\ peer_info.username # filter_username)

\* lines 184-187: the peer is not skipped by either filter
Matches(peer_info, req) ==
    LET filter_status == Get(req, "filter_status", PyNone)
        filter_username == Get(req, "filter_username", PyNone)
    IN  /\ ~(Truthy(filter_status) /\ peer_info.status # filter_status)
        /\ ~(Truthy(filter_username) /\ peer_info.username # filter_username)

\* handle_get_list
GetList(c, req) ==
    /\ Serves(c)
    /\ req.type = "get_list"
    /\ response' = [status |-> "success",
                    peers |-> [p \in {q \in DOMAIN peers : Matches(peers[q], req)} |->
                                 peers[p]],
                    message |-> "Peer list retrieved successfully"]
    /\ UNCHANGED <<peers, users, channels, open, now, issued, visitors, lastAdd, lock,
                   frames, lastSweep>>

\* ------------------------------------------------------------ sweeper
\* if current_time - peer_info['last_seen'] > 300
Timeout == 300

\* the test that also removes a peer exactly at the timeout
InactiveAtTimeout(peer_info, current_time) ==
    current_time - peer_info.last_seen >= Timeout

Inactive(peer_info, current_time) == current_time - peer_info.last_seen > Timeout

\* the pass that deletes the first inactive peer it meets and stops
RetainedButFirst(current_time) ==
    LET inactive == {q \in DOMAIN peers : Inactive(peers[q], current_time)}
        first == CHOOSE q \in inactive : TRUE
    IN  IF inactive = {} THEN peers
        ELSE [p \in DOMAIN peers \ {first} |-> peers[p]]

\* the directory without its inactive peers
Retained(current_time) ==
    [p \in {q \in DOMAIN peers : ~Inactive(peers[q], current_time)} |-> peers[p]]

\* the clock passes the length of the timeout while no request arrives
Elapse ==
    /\ now + Timeout <= MaxUptime
    /\ now' = now + Timeout
    /\ UNCHANGED <<peers, users, channels, open, response, issued, visitors, lastAdd,
                   lock, frames, lastSweep>>

\* one pass of cleanup_inactive_peers, from acquire to release
Sweep ==
    /\ frames[SweeperThread] = Idle
    /\ LockFree
    /\ \E current_time \in ClockRead(now) :
         /\ peers' = Retained(current_time)
         /\ now' = current_time
         /\ lastSweep' = [at |-> current_time,
                          removed |-> DOMAIN peers \ DOMAIN Retained(current_time),
                          left |-> Retained(current_time),
                          again |-> /\ lastSweep.at = current_time
                                    /\ lastSweep.left = peers]
    /\ UNCHANGED <<users, channels, open, response, issued, visitors, lastAdd, lock, frames>>

\* cleanup_inactive_peers statement by statement. Line 475: sleep returns
\* and the sweeper asks for the lock
SweepWake ==
    /\ frames[SweeperThread] = Idle
    /\ frames' = [frames EXCEPT ![SweeperThread] = [pc |-> "lock"]]
    /\ UNCHANGED <<peers, users, channels, open, now, response, issued, visitors,
                   lastAdd, lock, lastSweep>>

\* line 477: with self.lock
SweepLock ==
    /\ frames[SweeperThread].pc = "lock"
    /\ LockFree
    /\ lock' = SweeperThread
    /\ frames' = [frames EXCEPT ![SweeperThread] = [pc |-> "scan"]]
    /\ UNCHANGED <<peers, users, channels, open, now, response, issued, visitors,
                   lastAdd, lastSweep>>

\* lines 478-484: the clock is read and the inactive peers are collected
SweepScan ==
    /\ frames[SweeperThread].pc = "scan"
    /\ \E current_time \in ClockRead(now) :
         /\ now' = current_time
         /\ frames' = [frames EXCEPT
                         ![SweeperThread] =
                            [pc |-> "remove",
                             current_time |-> current_time,
                             inactive_peers |->
                                {p \in DOMAIN peers : Inactive(peers[p], current_time)}]]
    /\ UNCHANGED <<peers, users, channels, open, response, issued, visitors, lastAdd,
                   lock, lastSweep>>

\* lines 486-488: the collected peers are deleted and the with block ends;
\* del of a peer that is no longer there raises KeyError, which ends the thread
SweepRemove ==
    /\ frames[SweeperThread].pc = "remove"
    /\ LET inactive_peers == frames[SweeperThread].inactive_peers
           current_time == frames[SweeperThread].current_time
           left == [p \in DOMAIN peers \ inactive_peers |-> peers[p]]
       IN  IF inactive_peers \subseteq DOMAIN peers
           THEN /\ peers' = left
                /\ lastSweep' = [at |-> current_time,
                                 removed |-> inactive_peers,
                                 left |-> left,
                                 again |-> /\ lastSweep.at = current_time
                                           /\ lastSweep.left = peers]
                /\ frames' = [frames EXCEPT ![SweeperThread] = Idle]
           ELSE /\ peers' = [p \in DOMAIN peers \ {CHOOSE q \in inactive_peers : TRUE}
                               |-> peers[p]]
                /\ frames' = [frames EXCEPT ![SweeperThread] = [pc |-> "dead"]]
                /\ UNCHANGED lastSweep
    /\ lock' = 0
    /\ UNCHANGED <<users, channels, open, now, response, issued, visitors, lastAdd>>

\* ------------------------------------------------------------ dispatch
\* handle_client has read a request of connection c and takes no lock for it
Receives(c) == c \in open /\ frames[c] = Idle

\* lines 94-112: the types the if-chain of handle_client knows
KnownTypes ==
    {"submit_info", "get_list", "authenticate", "register_visitor", "get_channels",
     "get_channel_messages", "add_message", "sync_channel", "update_status", "ping"}

\* a ping answered as an error
PongError == [status |-> "error", message |-> "pong"]

\* line 113
Pong == [status |-> "success", message |-> "pong"]

\* lines 112-113: ping is answered by handle_client itself
Ping(c, req) ==
    /\ Receives(c)
    /\ Get(req, "type", PyNone) = "ping"
    /\ response' = Pong
    /\ UNCHANGED <<peers, users, channels, open, now, issued, visitors, lastAdd, lock,
                   frames, lastSweep>>

\* an unknown type answered as a success
UnknownTypeAccepted == [status |-> "success", message |-> "Unknown request type"]

\* line 115
UnknownTypeResponse == [status |-> "error", message |-> "Unknown request type"]

\* lines 114-115: the else branch of the if-chain
UnknownType(c, req) ==
    /\ Receives(c)
    /\ Get(req, "type", PyNone) \notin KnownTypes
    /\ response' = UnknownTypeResponse
    /\ UNCHANGED <<peers, users, channels, open, now, issued, visitors, lastAdd, lock,
                   frames, lastSweep>>

\* a handle_client that goes on serving after its except clause
StillOpen(c) == open

\* lines 132-134: finally closes the socket and handle_client returns
Closed(c) == open \ {c}

\* lines 121-123 and 132-134: json.loads raised JSONDecodeError
InvalidJson(c) ==
    /\ Receives(c)
    /\ response' = [status |-> "error", message |-> "Invalid JSON"]
    /\ open' = Closed(c)
    /\ UNCHANGED <<peers, users, channels, now, issued, visitors, lastAdd, lock,
                   frames, lastSweep>>

\* ------------------------------------------------------------ byte stream
\* The bytes of a connection, in units of a quarter of the receive buffer:
\* recv(4096) returns at most BufferSize units.
BufferSize == 4

\* a request whose message is LongText encodes to more bytes than one recv
\* returns
LongText == "long"

\* len(json.dumps(data).encode('utf-8')) of the client, in units
Size(req) == IF Get(req, "message", PyNone) = LongText THEN BufferSize + 1 ELSE 2

\* the units of the k-th request a client sent, n units long
Units(k, n) == [i \in 1..n |-> [req |-> k, part |-> i, of |-> n]]

\* json.loads(data.decode('utf-8')) returns: data is the whole text of one
\* request; a part of a text and a text followed by more raise JSONDecodeError
Decodes(data) ==
    /\ Len(data) = data[1].of
    /\ \A i \in 1..Len(data) : data[i].req = data[1].req /\ data[i].part = i

\* lines 94-115, for the requests a stream carries
Dispatch(c, req) ==
    \/ AddMessage(c, req)
    \/ Ping(c, req)
    \/ UnknownType(c, req)

\* line 59: accept() returns a new socket, nothing sent on it yet
Connect(c) ==
    /\ Accept(c)
    /\ streams' = [streams EXCEPT ![c] = NoStream]
    /\ UNCHANGED manager

\* the client writes one request to the socket (sock.sendall(json.dumps(data)))
ClientSend(c, req) ==
    /\ c \in open
    /\ Len(streams[c].sent) < MaxSent
    /\ streams' = [streams EXCEPT
                     ![c].sent = Append(@, req),
                     ![c].wire = @ \o Units(Len(streams[c].sent) + 1, Size(req))]
    /\ UNCHANGED <<peers, users, channels, open, now, response, issued, visitors,
                   lastAdd, lock, frames, lastSweep, manager>>

\* one pass of the while loop, lines 85-118: recv returns some of the bytes
\* that wait, at most a buffer of them; they are decoded, the request is
\* dispatched and the response is written
ReadCycle(c) ==
    /\ Receives(c)
    /\ streams[c].wire # <<>>
    /\ \E n \in 1..BufferSize :
         /\ n <= Len(streams[c].wire)
         /\ LET wire == streams[c].wire
                data == SubSeq(wire, 1, n)
            IN  /\ IF Decodes(data)
                   THEN Dispatch(c, streams[c].sent[data[1].req])
                   ELSE InvalidJson(c)
                /\ streams' = [streams EXCEPT
                                 ![c].wire = SubSeq(wire, n + 1, Len(wire)),
                                 ![c].answers = Append(@, response')]
    /\ UNCHANGED manager

\* ------------------------------------------------------------ serialization
\* The handler returns a dict (the with block ends, the lock is released)
\* and line 118 serializes it: the two are separate steps of the thread.
\* The handler's step, followed at once by line 118
Answered(c) == streams[c].returned = <<>> /\ Direct

\* the handler's step alone: the dict it returned waits for line 118
Return(c, req) ==
    /\ streams[c].returned = <<>>
    /\ Len(streams[c].answers) < MaxSent
    /\ streams' = [streams EXCEPT ![c].sent = Append(@, req),
                                  ![c].returned = <<response'>>]
    /\ UNCHANGED manager

\* json.dumps(response) of line 118: channel_data of the response of
\* sync_channel is self.channels[channel_id] itself (line 435), the dict the
\* store holds, and is written as it is when line 118 runs
Written(returned) ==
    IF "channel_data" \in DOMAIN returned
    THEN [returned EXCEPT !.channel_data = channels[returned.channel_id]]
    ELSE returned

\* line 118 (line 128 for the response to an exception)
Serialize(c) ==
    /\ streams[c].returned # <<>>
    /\ streams' = [streams EXCEPT
                     ![c].returned = <<>>,
                     ![c].answers = Append(@, Written(streams[c].returned[1]))]
    /\ UNCHANGED <<peers, users, channels, open, now, response, issued, visitors,
                   lastAdd, lock, frames, lastSweep, manager>>

\* ------------------------------------------------------------ data manager
\* DataManager (src/server/data_manager.py), call by call; a step runs a
\* caller up to the next `with self.lock` it has to wait at.
\* Line 20: self.lock is a threading.Lock, which its holder cannot take again
CanAcquire(t) == dataLock = 0

\* the tracker's state, which no call of the DataManager touches
TrackerIdle ==
    UNCHANGED <<peers, users, channels, open, now, response, issued, visitors,
                lastAdd, lock, frames, lastSweep, streams>>

\* the caller is between two calls
Callable(t) == calls[t].pc \in {"idle", "returned"}

\* add_peer(peer_id, peer_info) is called: line 79 goes to load_peers
AddPeerCall(t, peer_id, peer_info) ==
    /\ Callable(t)
    /\ calls' = [calls EXCEPT ![t] = [fn |-> "add_peer", pc |-> "load",
                                      peer_id |-> peer_id, peer_info |-> peer_info,
                                      peers |-> <<>>, result |-> PyNone]]
    /\ UNCHANGED <<dataLock, peersFile>>
    /\ TrackerIdle

\* remove_peer(peer_id) is called: line 99 goes to load_peers
RemovePeerCall(t, peer_id) ==
    /\ Callable(t)
    /\ calls' = [calls EXCEPT ![t] = [fn |-> "remove_peer", pc |-> "load",
                                      peer_id |-> peer_id, peer_info |-> PyNone,
                                      peers |-> <<>>, result |-> PyNone]]
    /\ UNCHANGED <<dataLock, peersFile>>
    /\ TrackerIdle

\* save_peers(peers) is called by the owner of the manager
SavePeersCall(t, snapshot) ==
    /\ Callable(t)
    /\ calls' = [calls EXCEPT ![t] = [fn |-> "save_peers", pc |-> "save",
                                      peer_id |-> PyNone, peer_info |-> PyNone,
                                      peers |-> snapshot, result |-> PyNone]]
    /\ UNCHANGED <<dataLock, peersFile>>
    /\ TrackerIdle

\* load_peers, lines 42-44: the lock is taken, the file is read, the lock is
\* released
LoadPeers(t) ==
    /\ calls[t].pc = "load"
    /\ CanAcquire(t)
    /\ calls' = [calls EXCEPT ![t].pc = "with", ![t].peers = peersFile]
    /\ UNCHANGED <<dataLock, peersFile>>
    /\ TrackerIdle

\* add_peer, lines 82-84: the lock is taken, the snapshot is updated and
\* save_peers is called with the lock held
AddPeerWith(t) ==
    /\ calls[t].pc = "with"
    /\ calls[t].fn = "add_peer"
    /\ CanAcquire(t)
    /\ dataLock' = t
    /\ calls' = [calls EXCEPT
                   ![t].pc = "save",
                   ![t].peers = Put(@, calls[t].peer_id, calls[t].peer_info)]
    /\ UNCHANGED peersFile
    /\ TrackerIdle

\* remove_peer, lines 101-105: the lock is taken; a peer of the snapshot is
\* deleted and save_peers is called with the lock held, a peer that is not in
\* it makes the call return True
RemovePeerWith(t) ==
    /\ calls[t].pc = "with"
    /\ calls[t].fn = "remove_peer"
    /\ CanAcquire(t)
    /\ IF calls[t].peer_id \in DOMAIN calls[t].peers
       THEN /\ dataLock' = t
            /\ calls' = [calls EXCEPT
                           ![t].pc = "save",
                           ![t].peers = [p \in DOMAIN @ \ {calls[t].peer_id} |-> @[p]]]
       ELSE /\ calls' = [calls EXCEPT ![t].pc = "returned", ![t].result = TRUE]
            /\ UNCHANGED dataLock
    /\ UNCHANGED peersFile
    /\ TrackerIdle

\* save_peers, lines 58-66: the lock is taken, the file is written (True) or
\* open raises (False), the lock is released; the caller of save_peers
\* returns its result and leaves its own with block
SavePeers(t) ==
    /\ calls[t].pc = "save"
    /\ CanAcquire(t)
    /\ \E written \in BOOLEAN :
         /\ peersFile' = IF written THEN calls[t].peers ELSE peersFile
         /\ calls' = [calls EXCEPT ![t].pc = "returned", ![t].result = written]
    /\ dataLock' = 0
    /\ TrackerIdle

\* ------------------------------------------------------------ requests
\* the channel ids a request names: the two channels and one that does not exist
RequestChannels == ChannelIds \cup {"lobby"}

\* a message of a client's local copy of a channel
ClientMessage(id, timestamp) ==
    [id |-> id, username |-> "admin", content |-> "local", timestamp |-> timestamp]

\* the message lists a client syncs: ids the server may hold too, timestamps
\* before and after the server's clock, one id twice
ClientLogs ==
    {<<>>,
     <<ClientMessage(1, 9)>>,
     <<ClientMessage(1, 0), ClientMessage(2, 9)>>,
     <<ClientMessage(3, 1), ClientMessage(3, 0)>>}

\* a dict with the flag, a dict without it, a value that is no dict
AccessControls ==
    {[visitors_allowed |-> TRUE], [visitors_allowed |-> FALSE], <<>>, [py_type |-> "str"]}

AddMessageRequests ==
    {[type |-> "add_message", channel_id |-> ch, username |-> "user1", message |-> "hi"] :
        ch \in RequestChannels}
    \cup {[type |-> "add_message", channel_id |-> ch, username |-> "user1",
           message |-> "hi", visitor_mode |-> v] : ch \in ChannelIds, v \in BOOLEAN}

\* channel_data with messages: a client log, or the server's own current log
MessageData(ch) ==
    {[messages |-> log] : log \in ClientLogs \cup {channels[ch].messages}}

AccessData == {[access_control |-> ac] : ac \in AccessControls}

BothData ==
    {[messages |-> <<ClientMessage(1, 9)>>, access_control |-> [visitors_allowed |-> FALSE]]}

\* the owner's requests with each channel_data, and with none; one request
\* of another user, one without a username, one for a channel that is not there
SyncRequestsWith(data, ch) ==
    {[type |-> "sync_channel", channel_id |-> ch, username |-> "admin", channel_data |-> d] :
        d \in data}
    \cup {[type |-> "sync_channel", channel_id |-> ch, username |-> "admin"],
          [type |-> "sync_channel", channel_id |-> ch, username |-> "user1",
           channel_data |-> [messages |-> <<ClientMessage(1, 9)>>,
                             access_control |-> [visitors_allowed |-> FALSE]]],
          [type |-> "sync_channel", channel_id |-> ch,
           channel_data |-> [messages |-> <<ClientMessage(1, 9)>>]],
          [type |-> "sync_channel", channel_id |-> "lobby", username |-> "admin",
           channel_data |-> [messages |-> <<ClientMessage(1, 9)>>]]}

\* the sync_channel requests that carry messages and no access control
SyncMessagesRequests ==
    UNION {SyncRequestsWith({<<>>} \cup MessageData(ch), ch) : ch \in ChannelIds}

\* the sync_channel requests that carry access control, alone or with messages
SyncAccessRequests ==
    UNION {SyncRequestsWith({<<>>} \cup AccessData \cup BothData, ch) : ch \in ChannelIds}

\* the appends that fill the channel whose reads the access control guards
AccessAddRequests ==
    {[type |-> "add_message", channel_id |-> "general", username |-> "user1",
      message |-> "hi"],
     [type |-> "add_message", channel_id |-> "general", username |-> "user1",
      message |-> "hi", visitor_mode |-> TRUE]}

\* what a client that registered as a visitor sends next: it names itself as
\* it likes and sets visitor_mode as it likes
VisitorRegisterRequests ==
    {[type |-> "register_visitor", port |-> 5000, visitor_name |-> "admin"]}

VisitorAddRequests ==
    {[type |-> "add_message", channel_id |-> "general", username |-> "admin",
      message |-> "hi"]}
    \cup {[type |-> "add_message", channel_id |-> "general", username |-> "admin",
           message |-> "hi", visitor_mode |-> v] : v \in BOOLEAN}

VisitorSyncRequests ==
    {[type |-> "sync_channel", channel_id |-> "general", username |-> u,
      channel_data |-> [access_control |-> [visitors_allowed |-> FALSE]]] :
        u \in {"admin", "visitor"}}

\* the appends and syncs that meet on one channel
LockAddRequests ==
    {[type |-> "add_message", channel_id |-> "general", username |-> "user1",
      message |-> "hi"],
     [type |-> "add_message", channel_id |-> "general", username |-> "user1",
      message |-> "hi", visitor_mode |-> TRUE],
     [type |-> "add_message", channel_id |-> "lobby", username |-> "user1",
      message |-> "hi"]}

LockSyncRequests ==
    {[type |-> "sync_channel", channel_id |-> "general", username |-> u,
      channel_data |-> [messages |-> log]] :
        u \in {"admin", "user1"},
        log \in {<<>>, <<ClientMessage(1, 0), ClientMessage(2, 9)>>}}

\* the appends and the owner's syncs that build and reorder one channel's log
SortAddRequests ==
    {[type |-> "add_message", channel_id |-> "general", username |-> "user1",
      message |-> "hi"]}

SortSyncRequests ==
    {[type |-> "sync_channel", channel_id |-> "general", username |-> "admin",
      channel_data |-> d] : d \in MessageData("general")}

\* a user with its password, with another user's, an unknown user, a request
\* without password, one without username
AuthenticateRequests ==
    {[type |-> "authenticate", username |-> u, password |-> pw] :
        u \in {"admin", "user1", "nobody"}, pw \in {"admin123", "user123"}}
    \cup {[type |-> "authenticate"], [type |-> "authenticate", username |-> "admin"]}

AuthUpdateRequests ==
    {[type |-> "update_status", username |-> u, status |-> "offline"] :
        u \in {"admin", "nobody"}}

\* the registrations whose peers the list is read from
ListSubmitRequests ==
    {[type |-> "submit_info", port |-> 5000],
     [type |-> "submit_info", port |-> 5000, username |-> "user1"]}

\* the updates that make some of the listed peers busy
ListBusyRequests ==
    {[type |-> "update_status", status |-> "busy", peer_id |-> p] : p \in DOMAIN peers}

\* updates that name a user and a peer the tracker holds, or ones it does not
ListUpdateRequests ==
    {[type |-> "update_status", username |-> u, status |-> "busy", peer_id |-> p] :
        u \in {"user1", "nobody"}, p \in DOMAIN peers \cup {"nobody"}}

\* each filter absent, a status or username some peers have, and the empty
\* string
GetListRequests ==
    LET statuses == {"busy", ""}
        usernames == {"user1", ""}
    IN  {[type |-> "get_list"]}
        \cup {[type |-> "get_list", filter_status |-> st] : st \in statuses}
        \cup {[type |-> "get_list", filter_username |-> u] : u \in usernames}
        \cup {[type |-> "get_list", filter_status |-> st, filter_username |-> u] :
                st \in statuses, u \in usernames}

SweepSubmitRequests ==
    {[type |-> "submit_info", port |-> 5000, username |-> "user1"]}

SweepUpdateRequests ==
    {[type |-> "update_status", status |-> "away", peer_id |-> p] : p \in DOMAIN peers}

PingRequests ==
    {[type |-> "ping"],
     [type |-> "ping", username |-> "admin", visitor_mode |-> TRUE]}

\* requests without a type, and with types the tracker does not know
UnknownRequests ==
    {[username |-> "admin"],
     [type |-> ""],
     [type |-> "PING"],
     [type |-> "logout", username |-> "admin"],
     [type |-> "add_messages", channel_id |-> "general", username |-> "user1",
      message |-> "hi"]}

\* the requests that fill the stores a ping or an unknown request must not touch
DispatchAuthRequests ==
    {[type |-> "authenticate", username |-> "admin", password |-> "admin123"]}

GetChannelsRequests ==
    {[type |-> "get_channels"]}
    \cup {[type |-> "get_channels", visitor_mode |-> v] : v \in BOOLEAN}

GetChannelMessagesRequests ==
    {[type |-> "get_channel_messages", channel_id |-> ch] : ch \in RequestChannels}
    \cup {[type |-> "get_channel_messages", channel_id |-> ch, visitor_mode |-> v] :
            ch \in RequestChannels, v \in BOOLEAN}

\* the requests of a byte stream: short ones and one longer than a read
StreamRequests ==
    {[type |-> "ping"],
     [type |-> "logout", username |-> "admin"],
     [type |-> "add_message", channel_id |-> "general", username |-> "admin",
      message |-> "hi"],
     [type |-> "add_message", channel_id |-> "general", username |-> "admin",
      message |-> LongText]}

\* the requests of the threads that contend for the lock: an append, the
\* owner's sync with a message, and the owner's sync without channel_data,
\* whose body raises
FairAddRequests ==
    {[type |-> "add_message", channel_id |-> "general", username |-> "user1",
      message |-> "hi"]}

FairSyncRequests ==
    {[type |-> "sync_channel", channel_id |-> "general", username |-> "admin",
      channel_data |-> [messages |-> <<ClientMessage(1, 0)>>]],
     [type |-> "sync_channel", channel_id |-> "general", username |-> "admin"]}

\* the messages a request can add to the channel store
Growth(req) ==
    IF req.type = "add_message"
    THEN 1
    ELSE Len(Get(Get(req, "channel_data", <<>>), "messages", <<>>))

\* the messages the request a thread is handling can still add
Pending(frame) == IF "req" \in DOMAIN frame THEN Growth(frame.req) ELSE 0

\* the clients send a request only while the store has room for what it and
\* the requests being handled can add
Fits(req) ==
    TotalMessages(channels, DOMAIN channels) + Growth(req)
       + Pending(frames[1]) + Pending(frames[2]) <= MaxFairLog

\* the peers the callers of the DataManager add, remove and save
ManagerPeerIds == {"user1_10.0.0.1_5000_0", "user2_10.0.0.2_5000_0"}

ManagerPeerInfo == [username |-> "user1", status |-> "online"]

ManagerSnapshots ==
    {<<>>} \cup {[p \in {q} |-> ManagerPeerInfo] : q \in ManagerPeerIds}

\* ------------------------------------------------------------ specifications
\* the peer directory: registrations from every connection
NextDir ==
    \/ \E c \in Conns : Accept(c) /\ Direct
    \/ Tick /\ Direct
    \/ \E c \in Conns, req \in SubmitInfoRequests : SubmitInfo(c, req) /\ Direct
    \/ \E c \in Conns, req \in RegisterVisitorRequests : RegisterVisitor(c, req) /\ Direct

SpecDir == Init /\ [][NextDir]_vars

\* the message logs: appends and syncs that carry messages
NextLog ==
    \/ \E c \in Conns : Accept(c) /\ Direct
    \/ Tick /\ Direct
    \/ \E c \in Conns, req \in AddMessageRequests : AddMessage(c, req) /\ Direct
    \/ \E c \in Conns, req \in SyncMessagesRequests : SyncChannel(c, req) /\ Direct

SpecLog == Init /\ [][NextLog]_vars

\* access control: syncs that replace it, and the reads it guards
NextAccess ==
    \/ \E c \in Conns : Accept(c) /\ Direct
    \/ \E c \in Conns, req \in AccessAddRequests : AddMessage(c, req) /\ Direct
    \/ \E c \in Conns, req \in SyncAccessRequests : SyncChannel(c, req) /\ Direct
    \/ \E c \in Conns, req \in GetChannelsRequests : GetChannels(c, req) /\ Direct
    \/ \E c \in Conns, req \in GetChannelMessagesRequests : GetChannelMessages(c, req) /\ Direct

SpecAccess == Init /\ [][NextAccess]_vars

\* visitors: clients that register as visitors and then write or sync
NextVisitor ==
    \/ \E c \in Conns : Accept(c) /\ Direct
    \/ \E c \in Conns, req \in VisitorRegisterRequests : RegisterVisitor(c, req) /\ Direct
    \/ \E c \in Conns, req \in VisitorAddRequests : AddMessage(c, req) /\ Direct
    \/ \E c \in Conns, req \in VisitorSyncRequests : SyncChannel(c, req) /\ Direct

SpecVisitor == Init /\ [][NextVisitor]_vars

\* the merge and its sort: one channel's log under appends and syncs
NextSort ==
    \/ \E c \in Conns : Accept(c) /\ Direct
    \/ Tick /\ Direct
    \/ \E c \in Conns, req \in SortAddRequests : AddMessage(c, req) /\ Direct
    \/ \E c \in Conns, req \in SortSyncRequests : SyncChannel(c, req) /\ Direct

SpecSort == Init /\ [][NextSort]_vars

\* the user table: logins and status updates
NextAuth ==
    \/ \E c \in Conns : Accept(c) /\ Direct
    \/ Tick /\ Direct
    \/ \E c \in Conns, req \in AuthenticateRequests : Authenticate(c, req) /\ Direct
    \/ \E c \in Conns, req \in AuthUpdateRequests : UpdateStatus(c, req) /\ Direct

SpecAuth == Init /\ [][NextAuth]_vars

\* the peer list: registrations, status updates and the reads of the list
NextList ==
    \/ \E c \in Conns : Accept(c) /\ Direct
    \/ \E c \in Conns, req \in ListSubmitRequests : SubmitInfo(c, req) /\ Direct
    \/ \E c \in Conns, req \in ListBusyRequests : UpdateStatus(c, req) /\ Direct
    \/ \E c \in Conns, req \in GetListRequests : GetList(c, req) /\ Direct

SpecList == Init /\ [][NextList]_vars

\* status updates: for users and peers the tracker holds and ones it does not
NextStatus ==
    \/ \E c \in Conns : Accept(c) /\ Direct
    \/ \E c \in Conns, req \in ListSubmitRequests : SubmitInfo(c, req) /\ Direct
    \/ \E c \in Conns, req \in ListUpdateRequests : UpdateStatus(c, req) /\ Direct

SpecStatus == Init /\ [][NextStatus]_vars

\* the sweeper: registrations and status updates while the clock runs past
\* the timeout
NextSweep ==
    \/ \E c \in Conns : Accept(c) /\ Direct
    \/ Tick /\ Direct
    \/ Elapse /\ Direct
    \/ \E c \in Conns, req \in SweepSubmitRequests :
          Cardinality(issued) < MaxIssued /\ SubmitInfo(c, req) /\ Direct
    \/ \E c \in Conns, req \in SweepUpdateRequests : UpdateStatus(c, req) /\ Direct
    \/ Sweep /\ Direct

SpecSweep == Init /\ [][NextSweep]_vars

\* the dispatcher: pings, unknown types and undecodable bytes between
\* requests that change the three stores
NextDispatch ==
    \/ \E c \in Conns : Accept(c) /\ Direct
    \/ \E c \in Conns, req \in SweepSubmitRequests : SubmitInfo(c, req) /\ Direct
    \/ \E c \in Conns, req \in DispatchAuthRequests : Authenticate(c, req) /\ Direct
    \/ \E c \in Conns, req \in SortAddRequests : AddMessage(c, req) /\ Direct
    \/ \E c \in Conns, req \in PingRequests : Ping(c, req) /\ Direct
    \/ \E c \in Conns, req \in UnknownRequests : UnknownType(c, req) /\ Direct
    \/ \E c \in Conns : InvalidJson(c) /\ Direct

SpecDispatch == Init /\ [][NextDispatch]_vars

\* the lock: appends that run statement by statement on two connections,
\* and syncs
NextLock ==
    \/ \E c \in Conns : Accept(c) /\ Direct
    \/ Tick /\ Direct
    \/ \E c \in Conns, req \in LockAddRequests : AddMessageCall(c, req) /\ Direct
    \/ \E c \in Conns : AddMessageLock(c) /\ Direct
    \/ \E c \in Conns : AddMessageBuild(c) /\ Direct
    \/ \E c \in Conns : AddMessageAppend(c) /\ Direct
    \/ \E c \in Conns, req \in LockSyncRequests : SyncChannel(c, req) /\ Direct

SpecLock == Init /\ [][NextLock]_vars

\* the byte streams of the connections: clients write requests, the
\* tracker reads what has arrived
NextStream ==
    \/ \E c \in Conns : Connect(c)
    \/ \E c \in Conns, req \in StreamRequests : ClientSend(c, req)
    \/ \E c \in Conns : ReadCycle(c)

SpecStream == Init /\ [][NextStream]_vars

\* the responses of sync_channel between their return and their
\* serialization, while the other connection appends and syncs
NextSerial ==
    \/ \E c \in Conns : Accept(c) /\ Direct
    \/ \E c \in Conns, req \in SortAddRequests : AddMessage(c, req) /\ Answered(c)
    \/ \E c \in Conns, req \in LockSyncRequests : SyncChannel(c, req) /\ Return(c, req)
    \/ \E c \in Conns : Serialize(c)

SpecSerial == Init /\ [][NextSerial]_vars

\* the sweeper statement by statement, between registrations and status
\* updates
NextTick ==
    \/ \E c \in Conns : Accept(c) /\ Direct
    \/ Elapse /\ Direct
    \/ \E c \in Conns, req \in SweepSubmitRequests :
          Cardinality(issued) < MaxIssued /\ SubmitInfo(c, req) /\ Direct
    \/ \E c \in Conns, req \in SweepUpdateRequests : UpdateStatus(c, req) /\ Direct
    \/ SweepWake /\ Direct
    \/ SweepLock /\ Direct
    \/ SweepScan /\ Direct
    \/ SweepRemove /\ Direct

SpecTick == Init /\ [][NextTick]_vars

\* the threads that take the lock, statement by statement: the handlers of
\* add_message and sync_channel on two connections and the sweeper
NextFair ==
    \/ \E c \in Conns : Accept(c) /\ Direct
    \/ \E c \in Conns, req \in FairAddRequests :
          Fits(req) /\ AddMessageCall(c, req) /\ Direct
    \/ \E c \in Conns : AddMessageLock(c) /\ Direct
    \/ \E c \in Conns : AddMessageBuild(c) /\ Direct
    \/ \E c \in Conns : AddMessageAppend(c) /\ Direct
    \/ \E c \in Conns, req \in FairSyncRequests :
          Fits(req) /\ SyncCall(c, req) /\ Direct
    \/ \E c \in Conns : SyncLock(c) /\ Direct
    \/ \E c \in Conns : SyncBody(c) /\ Direct
    \/ SweepWake /\ Direct
    \/ SweepLock /\ Direct
    \/ SweepScan /\ Direct
    \/ SweepRemove /\ Direct

\* a thread takes the lock: line 352, 397 or 477
Acquire(t) ==
    IF t = SweeperThread THEN SweepLock ELSE AddMessageLock(t) \/ SyncLock(t)

\* the holder of the lock runs its next statement
Proceed ==
    \/ \E c \in Conns : AddMessageBuild(c) \/ AddMessageAppend(c) \/ SyncBody(c)
    \/ SweepScan
    \/ SweepRemove

\* the thread that holds the lock does run, and a thread that waits for the
\* lock gets it if the lock is free again and again
FairScheduling ==
    /\ \A t \in Threads : SF_vars(Acquire(t) /\ Direct)
    /\ WF_vars(Proceed /\ Direct)

SpecFair == Init /\ [][NextFair]_vars /\ FairScheduling

\* the DataManager: two callers that add, remove and save peers
NextData ==
    \/ \E t \in Callers, peer_id \in ManagerPeerIds :
          AddPeerCall(t, peer_id, ManagerPeerInfo)
    \/ \E t \in Callers, peer_id \in ManagerPeerIds : RemovePeerCall(t, peer_id)
    \/ \E t \in Callers, snapshot \in ManagerSnapshots : SavePeersCall(t, snapshot)
    \/ \E t \in Callers : LoadPeers(t)
    \/ \E t \in Callers : AddPeerWith(t)
    \/ \E t \in Callers : RemovePeerWith(t)
    \/ \E t \in Callers : SavePeers(t)

SpecData == Init /\ [][NextData]_vars

\* ------------------------------------------------------------ claims
\* the request says visitor_mode: true
SaysVisitor(req) == "visitor_mode" \in DOMAIN req /\ req.visitor_mode

MessageIds(log) == {log[i].id : i \in 1..Len(log)}

MessageSet(log) == {log[i] : i \in 1..Len(log)}

\* the log is ordered by timestamp ascending
Sorted(log) == \A i \in 1..(Len(log) - 1) : log[i].timestamp <= log[i + 1].timestamp

\* the owner syncs the channel's own current log back
SelfSync(c, ch) ==
    SyncChannel(c, [type |-> "sync_channel", channel_id |-> ch,
                    username |-> channels[ch].owner,
                    channel_data |-> [messages |-> channels[ch].messages]])

\* C1: every submit_info and register_visitor returns a peer_id that no earlier
\* response returned, and adds a record without overwriting an existing one.
C1_PeerIdsUnique ==
    [][\A c \in Conns : \A req \in SubmitInfoRequests \cup RegisterVisitorRequests :
         (SubmitInfo(c, req) \/ RegisterVisitor(c, req))
            => /\ response'.peer_id \notin issued
               /\ response'.peer_id \notin DOMAIN peers
               /\ \A p \in DOMAIN peers : peers'[p] = peers[p]]_vars

\* C2: in every reachable state no channel's log holds two messages with the same id.
C2_MessageIdsUnique ==
    \A ch \in ChannelIds :
        LET log == channels[ch].messages
        IN  \A i, j \in 1..Len(log) : i # j => log[i].id # log[j].id

\* C3: the message_id a successful add_message returns is greater than the
\* one the previous successful add_message on that channel returned (previous
\* in the order the handlers append), whatever adds and syncs run on other
\* connections in between.
C3_AddIdsIncrease ==
    [][\A c \in Conns :
         AddMessageAppend(c)
            => response'.message_id > lastAdd[frames[c].req.channel_id]]_vars

\* a third add on a channel a sync has merged client messages into, returned
\* while the add of another connection waits for the lock
C3_Witness ==
    /\ lastAdd["general"] = 3
    /\ response = [status |-> "success", message_id |-> 3,
                   message |-> "Message added successfully"]
    /\ \E i \in 1..Len(channels["general"].messages) :
         channels["general"].messages[i].content = "local"
    /\ \E c \in Conns : frames[c].pc = "lock"

\* C4: add_message with visitor_mode true on an existing channel returns an
\* error and leaves the channels, the peers and the users unchanged.
C4_VisitorAddRejected ==
    [][\A c \in Conns : \A req \in AddMessageRequests :
         (AddMessage(c, req) /\ SaysVisitor(req) /\ req.channel_id \in DOMAIN channels)
            => /\ response'.status = "error"
               /\ UNCHANGED <<channels, peers, users>>]_vars

\* a visitor's add was refused on a store that holds messages
C4_Witness ==
    /\ response = [status |-> "error",
                   message |-> "Visitors are not allowed to add messages"]
    /\ \E ch \in ChannelIds : Len(channels[ch].messages) > 0

\* C5: a client that registered as a visitor never gets a successful
\* add_message or sync_channel, whatever username and visitor_mode it sends.
C5_VisitorNeverWrites ==
    [][\A c \in visitors :
         /\ \A req \in VisitorAddRequests :
              AddMessage(c, req) => response'.status = "error" /\ channels' = channels
         /\ \A req \in VisitorSyncRequests :
              SyncChannel(c, req) => response'.status = "error" /\ channels' = channels]_vars

\* C6: get_channel_messages with visitor_mode true on a channel whose
\* visitors_allowed is false returns an error that carries no messages, also
\* after a sync has replaced the channel's access control.
C6_VisitorReadRejected ==
    [][\A c \in Conns : \A req \in GetChannelMessagesRequests :
         (/\ GetChannelMessages(c, req)
          /\ SaysVisitor(req)
          /\ req.channel_id \in DOMAIN channels
          /\ channels[req.channel_id].access_control = [visitors_allowed |-> FALSE])
            => /\ response'.status = "error"
               /\ "messages" \notin DOMAIN response']_vars

\* a visitor's read was refused on a channel that holds messages and whose
\* access control a sync has set to visitors_allowed false
C6_Witness ==
    /\ response = [status |-> "error",
                   message |-> "Visitors are not allowed in this channel"]
    /\ \E ch \in ChannelIds :
         /\ channels[ch].access_control = [visitors_allowed |-> FALSE]
         /\ Len(channels[ch].messages) > 0

\* C7: get_channels with visitor_mode true returns exactly the channels whose
\* visitors_allowed is true, and every returned entry holds name and owner only.
C7_VisitorChannelList ==
    [][\A c \in Conns : \A req \in GetChannelsRequests :
         GetChannels(c, req)
            => /\ response'.status = "success"
               /\ SaysVisitor(req) =>
                    DOMAIN response'.channels =
                        {ch \in ChannelIds :
                            /\ IsDict(channels[ch].access_control)
                            /\ Get(channels[ch].access_control, "visitors_allowed", FALSE)}
               /\ \A ch \in DOMAIN response'.channels :
                    DOMAIN response'.channels[ch] = {"name", "owner"}]_vars

\* C8: sync_channel succeeds only if the channel exists and the username is
\* its owner; otherwise it returns an error and changes no channel.
C8_SyncOwnerOnly ==
    [][\A c \in Conns : \A req \in SyncAccessRequests :
         SyncChannel(c, req)
            => LET id == Get(req, "channel_id", PyNone)
                   owned == /\ id \in DOMAIN channels
                            /\ "username" \in DOMAIN req
                            /\ req.username = channels[id].owner
               IN  /\ response'.status = "success" => owned
                   /\ ~owned => response'.status = "error" /\ channels' = channels]_vars

\* a sync was refused on a store whose channels differ from the initial ones
C8_Witness ==
    /\ response = [status |-> "error",
                   message |-> "Channel not found or you are not the owner"]
    /\ \E ch \in ChannelIds :
         /\ channels[ch].access_control # [visitors_allowed |-> TRUE]
         /\ Len(channels[ch].messages) > 0

\* C9 as stated: in every reachable state the owner's sync of the channel's
\* own current log leaves the log unchanged.
C9_SelfSyncKeepsLog ==
    [][\A c \in Conns : \A ch \in ChannelIds :
         SelfSync(c, ch) => channels'[ch].messages = channels[ch].messages]_vars

\* C9 as amended: in every reachable state where the channel's log is ordered
\* by timestamp, the owner's sync of the channel's own current log leaves the
\* log unchanged.
C9_SelfSyncKeepsSortedLog ==
    [][\A c \in Conns : \A ch \in ChannelIds :
         (SelfSync(c, ch) /\ Sorted(channels[ch].messages))
            => channels'[ch].messages = channels[ch].messages]_vars

\* a sync answered with a log of added and client messages, ordered by
\* timestamp, that is the channel's log
C9_Witness ==
    \E ch \in ChannelIds :
        LET log == channels[ch].messages
        IN  /\ Len(log) >= 2
            /\ Sorted(log)
            /\ \E i, j \in 1..Len(log) : log[i].content = "hi" /\ log[j].content = "local"
            /\ response.status = "success"
            /\ "channel_data" \in DOMAIN response
            /\ response.channel_id = ch
            /\ response.channel_data.messages = log

\* C10: for the logs A and B of two channels with disjoint id sets, the sync
\* of B into A and the sync of A into B yield the same set of messages.
C10_MergeCommutes ==
    \A a, b \in ChannelIds :
        LET A == channels[a].messages
            B == channels[b].messages
        IN  MessageIds(A) \cap MessageIds(B) = {}
               => MessageSet(MergeMessages(A, B)) = MessageSet(MergeMessages(B, A))

\* the elements of seq at the indices idx, in their order
Pick(seq, idx) ==
    [k \in 1..Cardinality(idx) |->
        seq[CHOOSE i \in idx : Cardinality({j \in idx : j <= i}) = k]]

\* the messages of the log that carry timestamp t, in their order
WithTimestamp(log, t) == Pick(log, {i \in 1..Len(log) : log[i].timestamp = t})

\* the incoming messages a merge accepts: the first of each id the server lacks
Accepted(old, incoming) ==
    Pick(incoming, {i \in 1..Len(incoming) :
                      /\ incoming[i].id \notin MessageIds(old)
                      /\ \A j \in 1..(i - 1) : incoming[j].id # incoming[i].id})

\* C11: after a successful sync_channel that carries messages, the ids of the
\* log are the ids of the previous log and of the incoming messages together,
\* no id is in the log twice, and a message whose id the previous log held is
\* a message of the previous log.
C11_MergeIsUnion ==
    [][\A c \in Conns : \A req \in SyncMessagesRequests :
         (/\ response'.status = "success"
          /\ "channel_data" \in DOMAIN response'
          /\ SyncChannel(c, req)
          /\ "messages" \in DOMAIN req.channel_data)
            => LET old == channels[req.channel_id].messages
                   new == channels'[req.channel_id].messages
               IN  /\ MessageIds(new) =
                         MessageIds(old) \cup MessageIds(req.channel_data.messages)
                   /\ \A i, j \in 1..Len(new) : i # j => new[i].id # new[j].id
                   /\ \A i \in 1..Len(new) :
                         new[i].id \in MessageIds(old) => new[i] \in MessageSet(old)]_vars

\* C12: after a successful sync_channel that carries messages the log is
\* ordered by timestamp ascending, and the messages of one timestamp are the
\* previous log's messages of that timestamp in their previous order, then the
\* accepted incoming ones in incoming order.
C12_SortStable ==
    [][\A c \in Conns : \A req \in SortSyncRequests :
         (/\ response'.status = "success"
          /\ "channel_data" \in DOMAIN response'
          /\ SyncChannel(c, req)
          /\ "messages" \in DOMAIN req.channel_data)
            => LET old == channels[req.channel_id].messages
                   new == channels'[req.channel_id].messages
                   accepted == Accepted(old, req.channel_data.messages)
               IN  /\ Sorted(new)
                   /\ \A t \in {new[i].timestamp : i \in 1..Len(new)}
                            \cup {old[i].timestamp : i \in 1..Len(old)}
                            \cup {accepted[i].timestamp : i \in 1..Len(accepted)} :
                         WithTimestamp(new, t) =
                             WithTimestamp(old, t) \o WithTimestamp(accepted, t)]_vars

\* a sync answered with a log where an accepted client message follows an
\* added message of its own timestamp and an earlier message was moved
C12_Witness ==
    /\ response.status = "success"
    /\ "channel_data" \in DOMAIN response
    /\ LET log == response.channel_data.messages
       IN  /\ channels[response.channel_id].messages = log
           /\ \E i, j \in 1..Len(log) :
                /\ i < j
                /\ log[i].timestamp = log[j].timestamp
                /\ log[i].content = "hi"
                /\ log[j].content = "local"
           /\ \E i, j \in 1..Len(log) : i < j /\ log[i].id > log[j].id

\* C13: a successful sync_channel sets the channel's access control to the
\* value channel_data carries, leaves it unchanged when channel_data carries
\* none, and leaves the channel's name and owner and every other channel
\* unchanged.
C13_SyncAccessControl ==
    [][\A c \in Conns : \A req \in SyncAccessRequests :
         (SyncChannel(c, req) /\ response'.status = "success")
            => LET ch == req.channel_id
                   data == req.channel_data
               IN  /\ channels'[ch].access_control =
                         IF "access_control" \in DOMAIN data
                         THEN data.access_control
                         ELSE channels[ch].access_control
                   /\ channels'[ch].name = channels[ch].name
                   /\ channels'[ch].owner = channels[ch].owner
                   /\ \A other \in DOMAIN channels \ {ch} :
                         channels'[other] = channels[other]
                   /\ DOMAIN channels' = DOMAIN channels]_vars

\* a sync that carried no access control answered with the access control an
\* earlier sync had set, on a channel that holds messages
C13_Witness ==
    /\ response.status = "success"
    /\ "channel_data" \in DOMAIN response
    /\ DOMAIN response.channel_data.access_control = {}
    /\ Len(response.channel_data.messages) > 0
    /\ channels[response.channel_id] = response.channel_data
    /\ \E other \in ChannelIds \ {response.channel_id} :
         channels[other].access_control = [visitors_allowed |-> FALSE]


\* C14: an authenticate request whose username is unknown or whose password
\* differs from the stored one returns an error without a session_id and
\* leaves the users, the peers and the channels unchanged.
C14_AuthFailureChangesNothing ==
    [][\A c \in Conns : \A req \in AuthenticateRequests :
         (/\ Authenticate(c, req)
          /\ \/ "username" \notin DOMAIN req
             \/ "password" \notin DOMAIN req
             \/ req.username \notin DOMAIN users
             \/ users[req.username].password # req.password)
            => /\ response'.status = "error"
               /\ "session_id" \notin DOMAIN response'
               /\ UNCHANGED <<users, peers, channels, issued>>]_vars

\* a login was refused while another user is online
C14_Witness ==
    /\ response = [status |-> "error", message |-> "Invalid username or password"]
    /\ \E u \in DOMAIN users : users[u].status = "online"

\* C15: a successful authenticate sets the user's status to online and
\* returns a session_id that no earlier response returned.
C15_SessionIdsUnique ==
    [][\A c \in Conns : \A req \in AuthenticateRequests :
         (Authenticate(c, req) /\ response'.status = "success")
            => /\ users'[req.username].status = "online"
               /\ response'.session_id \notin issued]_vars

\* the request carries the filter: the key is there and its value is not empty
HasFilter(req, key) == key \in DOMAIN req /\ req[key] # ""

C17_SweepRemovesInactive ==
    [][Sweep =>
         /\ DOMAIN peers' \subseteq DOMAIN peers
         /\ \A p \in DOMAIN peers :
              IF now' - peers[p].last_seen > 300
              THEN p \notin DOMAIN peers'
              ELSE p \in DOMAIN peers' /\ peers'[p] = peers[p]]_vars

\* a pass removed a peer and kept one that update_status had refreshed
\* exactly 300 seconds before
C17_Witness ==
    /\ lastSweep.removed # {}
    /\ lastSweep.left = peers
    /\ \E p \in DOMAIN peers :
         /\ peers[p].status = "away"
         /\ lastSweep.at - peers[p].last_seen = 300

\* C18: a pass of the sweeper at the time of the previous pass, on the
\* directory the previous pass left, removes no peer and leaves the directory
\* as it is.
C18_SweepIdempotent ==
    [][(Sweep /\ lastSweep.at = now' /\ lastSweep.left = peers)
          => /\ peers' = peers
             /\ lastSweep'.removed = {}]_vars

\* a second pass at the time of a first one that had removed a peer and kept
\* another
C18_Witness ==
    /\ lastSweep.again
    /\ lastSweep.removed = {}
    /\ lastSweep.left = peers
    /\ peers # <<>>
    /\ \E p \in issued : p \notin DOMAIN peers

\* C19: update_status returns success, sets the status of the user the
\* request names if the user table has it, sets status and last_seen of the
\* peer it names if the directory has it, adds no user and no peer and changes
\* no other record.
C19_UpdateStatusFrame ==
    [][\A c \in Conns : \A req \in ListUpdateRequests :
         ("message_id" \notin DOMAIN response' /\ UpdateStatus(c, req))
            => /\ response'.status = "success"
               /\ DOMAIN users' = DOMAIN users
               /\ DOMAIN peers' = DOMAIN peers
               /\ \A u \in DOMAIN users :
                    users'[u] = IF u = req.username
                                THEN [users[u] EXCEPT !.status = req.status]
                                ELSE users[u]
               /\ \A p \in DOMAIN peers :
                    peers'[p] = IF p = req.peer_id
                                THEN [peers[p] EXCEPT !.status = req.status,
                                                      !.last_seen = now']
                                ELSE peers[p]
               /\ now' \in ClockRead(now)
               /\ UNCHANGED channels]_vars

\* an update set the status of user1 and refreshed one peer a second after
\* its registration, next to a peer it left alone
C19_Witness ==
    /\ response = [status |-> "success", message |-> "Status updated successfully"]
    /\ users["user1"].status = "busy"
    /\ \E p, q \in DOMAIN peers :
         /\ peers[p].status = "busy"
         /\ peers[p].last_seen = 1
         /\ PeerId(peers[p].username, peers[p].ip, peers[p].port, 0) = p
         /\ peers[q].status = "online"
         /\ peers[q].last_seen = 0

\* C20: register_visitor stores a peer record whose status is visitor and
\* leaves the users and the channels unchanged, also when the visitor_name is
\* the username of a user.
C20_RegisterVisitorFrame ==
    [][\A c \in Conns : \A req \in RegisterVisitorRequests :
         RegisterVisitor(c, req)
            => /\ response'.status = "success"
               /\ response'.peer_id \in DOMAIN peers'
               /\ peers'[response'.peer_id].status = "visitor"
               /\ peers'[response'.peer_id].username = response'.visitor_name
               /\ UNCHANGED <<users, channels>>]_vars

\* a visitor named admin registered next to another peer, the user admin
\* still offline
C20_Witness ==
    /\ response.status = "success"
    /\ "visitor_name" \in DOMAIN response
    /\ response.visitor_name = "admin"
    /\ peers[response.peer_id].status = "visitor"
    /\ Cardinality(DOMAIN peers) = 2
    /\ users["admin"].status = "offline"


\* the peer directory, the user table and the channel store
stores == <<peers, users, channels>>

\* C21: a ping request is answered with status success and message pong and
\* leaves the peers, the users and the channels unchanged, in every reachable
\* state.
C21_PingPong ==
    [][\A c \in Conns : \A req \in PingRequests :
         Ping(c, req)
            => /\ response' = [status |-> "success", message |-> "pong"]
               /\ UNCHANGED stores
               /\ c \in open']_vars

\* a ping answered while every store differs from its initial value
C21_Witness ==
    /\ response = [status |-> "success", message |-> "pong"]
    /\ peers # <<>>
    /\ users["admin"].status = "online"
    /\ Len(channels["general"].messages) > 0

\* C22: a request whose type is missing or is none of the ten known types is
\* answered with status error and message 'Unknown request type', leaves the
\* three stores unchanged, and its connection is served on.
C22_UnknownType ==
    [][\A c \in Conns : \A req \in UnknownRequests :
         UnknownType(c, req)
            => /\ response' = [status |-> "error", message |-> "Unknown request type"]
               /\ UNCHANGED stores
               /\ c \in open'
               /\ Receives(c)']_vars

\* an unknown request answered while the stores hold a peer and a message
C22_Witness ==
    /\ response = [status |-> "error", message |-> "Unknown request type"]
    /\ peers # <<>>
    /\ Len(channels["general"].messages) > 0
    /\ open = Conns

\* C25: when the bytes read on a connection do not decode as JSON, the one
\* response is an error, no store changes, and the connection is closed, so
\* that no further request of it is processed.
C25_InvalidJsonCloses ==
    [][\A c \in Conns :
         InvalidJson(c)
            => /\ response'.status = "error"
               /\ response'.message = "Invalid JSON"
               /\ UNCHANGED stores
               /\ c \notin open'
               /\ ~Receives(c)'
               /\ \A d \in Conns \ {c} : d \in open' <=> d \in open]_vars

\* undecodable bytes answered and their connection closed while the other
\* connection stays open and the stores hold a peer and a message
C25_Witness ==
    /\ response = [status |-> "error", message |-> "Invalid JSON"]
    /\ Cardinality(open) = 1
    /\ peers # <<>>
    /\ Len(channels["general"].messages) > 0


\* C24: a request that makes its handler raise (here a sync_channel of the
\* owner without channel_data) is answered with an error response, and its
\* connection is served on.
C24_HandlerFailureKeepsServing ==
    [][\A c \in Conns : \A req \in SyncAccessRequests :
         (/\ SyncChannel(c, req)
          /\ "channel_data" \notin DOMAIN req
          /\ MaySync(req.channel_id, Get(req, "username", PyNone)))
            => /\ response'.status = "error"
               /\ c \in open'
               /\ Receives(c)']_vars

\* C27: no request of one connection makes a later well-formed get_channels
\* or get_channel_messages of a connection fail with an internal error.
C27_FailuresIsolated ==
    [][/\ \A c \in Conns : \A req \in GetChannelsRequests :
            GetChannels(c, req)
               => response' # RaisedResponse(NoGetAttr) /\ c \in open'
       /\ \A c \in Conns : \A req \in GetChannelMessagesRequests :
            GetChannelMessages(c, req)
               => response' # RaisedResponse(NoGetAttr) /\ c \in open']_vars


\* the response the dispatch chain gives a request of a byte stream
AnswersRequest(resp, req) ==
    CASE req.type = "ping" -> resp = Pong
      [] req.type = "add_message" -> "message_id" \in DOMAIN resp
      [] OTHER -> resp = UnknownTypeResponse

\* C23: on a connection the k-th response written is the response to the
\* k-th request sent, and no more responses are written than requests sent.
C23_AnsweredInOrder ==
    \A c \in Conns :
       /\ Len(streams[c].answers) <= Len(streams[c].sent)
       /\ \A k \in 1..Len(streams[c].answers) :
            AnswersRequest(streams[c].answers[k], streams[c].sent[k])

\* C26: however the bytes of a connection fall into reads, a read cycle
\* takes the bytes of exactly the first waiting request and does not reject
\* them as malformed.
C26_OneRequestPerRead ==
    [][\A c \in Conns :
         ReadCycle(c)
            => /\ response' # [status |-> "error", message |-> "Invalid JSON"]
               /\ Len(streams[c].wire) - Len(streams'[c].wire)
                    = streams[c].wire[1].of]_vars

\* C28: the channel_data written in a response to sync_channel is the
\* channel as the handler left it when it held the lock, whatever the other
\* connection does between the handler's return and the serialization.
C28_ResponseIsSnapshot ==
    [][\A c \in Conns :
         Serialize(c)
            => LET answers == streams'[c].answers
               IN  answers[Len(answers)] = streams[c].returned[1]]_vars

\* C29: a peer the sweeper deletes has, at the moment of the deletion, a
\* last_seen more than the timeout before the time the tick read, and the
\* tick ends without an exception: every peer it collected is still there.
C29_SweepAtomic ==
    [][SweepRemove
         => /\ \A p \in frames[SweeperThread].inactive_peers :
                 /\ p \in DOMAIN peers
                 /\ frames[SweeperThread].current_time - peers[p].last_seen > Timeout
            /\ frames'[SweeperThread] = Idle]_vars

\* the sweeper between its scan and its removal, holding a peer to delete,
\* while the directory also holds a peer whose status was updated in time
C29_Witness ==
    /\ frames[SweeperThread].pc = "remove"
    /\ frames[SweeperThread].inactive_peers # {}
    /\ \E p \in DOMAIN peers :
         /\ p \notin frames[SweeperThread].inactive_peers
         /\ peers[p].status = "away"

\* the thread runs statements of a with self.lock block
InLock(t) == frames[t].pc \in {"build", "append", "sync_body", "scan", "remove"}

\* the thread waits in `with self.lock`
Waits(t) == frames[t].pc \in {"lock", "sync_lock"}

\* C30: at most one thread is inside a with self.lock block, and it is the
\* holder of the lock; a thread that asks for the lock does not hold it; a
\* thread outside the block, whether it returned or raised, has released the
\* lock; and under fair scheduling a thread that asks for the lock gets it
\* and a connection that handles a request returns to its receive loop with
\* the response (or is closed with it).
C30_LockDiscipline ==
    /\ [](\A t \in Threads :
            /\ InLock(t) <=> lock = t
            /\ Waits(t) => lock # t)
    /\ [](Cardinality({t \in Threads : InLock(t)}) <= 1)
    /\ \A t \in Threads : Waits(t) ~> (lock = t)
    /\ \A t \in Threads : (frames[t] # Idle) ~> (frames[t] = Idle)

\* a connection waits for the lock that the sweeper holds, while the other
\* connection has been closed by a sync that raised inside the block
C30_Witness ==
    /\ lock = SweeperThread
    /\ \E c \in Conns : Waits(c)
    /\ \E c \in Conns : c \notin open
    /\ response = RaisedResponse(NotIterable)

\* C32: the status of every peer record of the directory is online,
\* offline or visitor.
C32_StatusDomain ==
    \A p \in DOMAIN peers : peers[p].status \in {"online", "offline", "visitor"}

\* the call of caller t returns in this step
Returns(t) == calls[t].pc # "returned" /\ calls'[t].pc = "returned"

\* C31: no call of add_peer or remove_peer waits for the lock of the manager
\* while its own caller holds it, which is a wait without end; a call returns
\* a boolean; when add_peer returns True the file maps peer_id to peer_info,
\* and when remove_peer returns True the file does not hold peer_id.
C31_ManagerCallsReturn ==
    [][\A t \in Callers :
         /\ ~(calls'[t].pc = "save" /\ dataLock' = t)
         /\ Returns(t) => calls'[t].result \in BOOLEAN
         /\ (Returns(t) /\ calls'[t].fn = "add_peer" /\ calls'[t].result = TRUE)
               => /\ calls[t].peer_id \in DOMAIN peersFile'
                  /\ peersFile'[calls[t].peer_id] = calls[t].peer_info
         /\ (Returns(t) /\ calls'[t].fn = "remove_peer" /\ calls'[t].result = TRUE)
               => calls[t].peer_id \notin DOMAIN peersFile']_vars

====
